---- MODULE Spec2Model ----
(***************************************************************************)
(* The appointment store of the HealthConnect booking backend              *)
(* (app/repositories.py, AppointmentRepository), the session-backed        *)
(* booking routes (app/routes), the availability queries and route, and    *)
(* the Redis session clients (app/redis_client.py) with the replacement of *)
(* two of their methods by app/utils/langchain_integration.py, the         *)
(* booking_sessions table (BookingSessionRepository) and the BookingAgent  *)
(* workflow graph.                                                         *)
(*                                                                         *)
(* Times are minutes counted from a fixed midnight.  An appointment row    *)
(* keeps the columns the booking logic reads: user_id, family_member_id,   *)
(* doctor_id, date_time, duration_minutes, status and confirmation_id.     *)
(* The columns location_id, reason and notes are carried by the code       *)
(* without being read by any operation modelled here.                      *)
(*                                                                         *)
(* An optional Python value is a sequence: <<>> is None (or an omitted     *)
(* argument), <<v>> is the value v.  A string whose characters matter (a   *)
(* confirmation identifier) is the sequence of its characters.             *)
(***************************************************************************)
EXTENDS Integers, Sequences, FiniteSets

VARIABLES
    appointments,   \* the appointments table: row id -> row (ids 1..Len)
    pc,             \* per request handler: "idle", "added" (db.add done), "done"
    pending,        \* per request handler: the Appointment object built by the call
    ret,            \* per request handler: what its last call returned or raised
    store,          \* the session store r: user id -> optional session
    routeRet,       \* the last HTTP response of a booking route
    schedules,      \* the doctor_schedules table: row id -> row (ids 1..Len)
    avail,          \* the last response of /doctor-availability, if any
    queried,        \* the last result of a repository query, if any
    bookingStates,  \* Redis "booking:state:<user>": user id -> optional BookingState
    current,        \* per request handler: the update_booking_state call in progress
    conversations,  \* Redis list "booking:conversation:<id>": id -> messages (<<>>: no key)
    histories,      \* Redis string "conversation:<id>": id -> optional list of messages
    sessions,       \* Redis string "session:chatbook:<id>": id -> optional session data
    ttl,            \* the keys <<prefix, id>> that carry an expiry
    patched,        \* whether app.utils.langchain_integration has been imported
    bookingSessions, \* the booking_sessions table: row id -> row (ids 1..Len)
    endCalls,       \* per booking session: the statuses end_session was called with
    now,            \* the clock datetime.now() reads, in minutes
    graph           \* the run of the BookingAgent workflow graph

\* the tables and responses of the availability queries
queryVars == <<schedules, avail, queried>>

\* the Redis keys of the session layer: booking states and the calls that
\* update them, conversation lists, conversation strings, chat sessions,
\* and the set of keys that carry an expiry
redisVars == <<bookingStates, current, conversations, histories, sessions, ttl, patched>>

\* the booking_sessions table with the clock it is read against, and the
\* run of the BookingAgent graph
agentVars == <<bookingSessions, endCalls, now, graph>>

sessionVars == <<redisVars, agentVars>>

vars == <<appointments, pc, pending, ret, store, routeRet, queryVars, sessionVars>>

---------------------------------------------------------------------------
(* Bounds and input sets.  The table is bounded by the confirmation        *)
(* identifiers the inputs can produce: the identifier column is unique.    *)

\* the number of concurrent request handlers
NumWorkers == 2

Workers == 1..NumWorkers

\* the handler that makes the calls when they are made one after another
W1 == CHOOSE w \in Workers : \A v \in Workers : w <= v

Doctors == {1, 2}
Starts == {0, 30}
Durations == {30, 60}
Users == {"u1", "u2"}
SessionIds == {"s1", "s2"}

NoneV == <<>>
Some(v) == <<v>>
IsNone(o) == Len(o) = 0

---------------------------------------------------------------------------
(* models.py *)

AppointmentStatusEnum == {"REQUESTED", "CONFIRMED", "CANCELED", "COMPLETED", "RESCHEDULED"}

\* the statuses that occupy a doctor's time
OccupyingStatuses == {"REQUESTED", "CONFIRMED"}

DefaultDuration == 30
DefaultStatus == "REQUESTED"

\* AppointmentCreate(...): the pydantic model fills the defaults of the
\* fields the caller omits; user_id is required, family_member_id and
\* confirmation_id stay optional.
AppointmentCreateFor(user, optFamily, doctor, start, optDuration, optStatus, optCid) ==
    [user_id          |-> user,
     family_member_id |-> optFamily,
     doctor_id        |-> doctor,
     date_time        |-> start,
     duration_minutes |-> IF IsNone(optDuration) THEN DefaultDuration ELSE optDuration[1],
     status           |-> IF IsNone(optStatus) THEN DefaultStatus ELSE optStatus[1],
     confirmation_id  |-> optCid]

\* a request of user 1 for themselves
AppointmentCreate(doctor, start, optDuration, optStatus, optCid) ==
    AppointmentCreateFor(1, NoneV, doctor, start, optDuration, optStatus, optCid)

---------------------------------------------------------------------------
(* Confirmation identifiers *)

HexLower == <<"0", "1", "2", "3", "4", "5", "6", "7", "8", "9", "a", "b", "c", "d", "e", "f">>
HexUpperChars == {"0", "1", "2", "3", "4", "5", "6", "7", "8", "9", "A", "B", "C", "D", "E", "F"}

\* str.upper() on one character of a hex string
UpperChar(c) ==
    CASE c = "a" -> "A" [] c = "b" -> "B" [] c = "c" -> "C"
      [] c = "d" -> "D" [] c = "e" -> "E" [] c = "f" -> "F"
      [] OTHER -> c

Upper(s) == [i \in 1..Len(s) |-> UpperChar(s[i])]

\* s[:n]
Prefix(s, n) == SubSeq(s, 1, IF n < Len(s) THEN n ELSE Len(s))

\* uuid.uuid4().hex: 32 lowercase hexadecimal characters.  Two sample
\* values that differ only after their fifth character.
HexOf(head, step) == [i \in 1..32 |-> IF i <= Len(head) THEN head[i] ELSE HexLower[((i * step) % 16) + 1]]
UuidHexes ==
    { HexOf(<<"3", "f", "a", "0", "c">>, 3),
      HexOf(<<"3", "f", "a", "0", "c">>, 7) }

\* more sample values, with other leading characters
UuidHexesWide ==
    UuidHexes \cup { HexOf(<<"9", "b", "1", "e", "4">>, 5), HexOf(<<"d", "0", "7", "7", "a">>, 11) }

GeneratedIdLen == 5

GenerateLowerCaseId(hex) == <<"B", "K", "-">> \o Prefix(hex, GeneratedIdLen)

\* f"BK-{uuid.uuid4().hex[:5].upper()}"
GenerateConfirmationId(hex) == <<"B", "K", "-">> \o Upper(Prefix(hex, GeneratedIdLen))

\* an identifier a caller passes: f"BK-{fake.random_number(digits=5)}"
SeededId == <<"B", "K", "-", "1", "2", "3", "4", "5">>

\* `not appointment_data.confirmation_id`: None and "" are both falsy
Falsy(optStr) == IsNone(optStr) \/ Len(optStr[1]) = 0

ConfirmationIdFor(data, hex) ==
    IF Falsy(data.confirmation_id) THEN GenerateConfirmationId(hex)
    ELSE data.confirmation_id[1]

---------------------------------------------------------------------------
(* Intervals *)

EndOf(a) == a.date_time + a.duration_minutes

\* open/open overlap of [start, start + duration)
Overlaps(a, b) == a.date_time < EndOf(b) /\ b.date_time < EndOf(a)

Occupies(a) == a.status \in OccupyingStatuses

---------------------------------------------------------------------------
(* What a call returns or raises *)

NoReturn == [kind |-> "none", id |-> 0]
Returned(id) == [kind |-> "Appointment", id |-> id]
ReturnedNone == [kind |-> "None", id |-> 0]
Raised(e) == [kind |-> e, id |-> 0]

---------------------------------------------------------------------------
(* AppointmentRepository *)

\* AppointmentStatusEnum[status] raises KeyError for a name that is no member
ValidStatus(s) == s \in AppointmentStatusEnum

\* get_appointment_by_id: the row, or None
\* a lookup that falls back to the newest row
get_appointment_or_newest(tbl, id) ==
    IF id \in DOMAIN tbl THEN Some(tbl[id])
    ELSE IF tbl # <<>> THEN Some(tbl[Len(tbl)]) ELSE NoneV

get_appointment_by_id(tbl, id) == IF id \in DOMAIN tbl THEN Some(tbl[id]) ELSE NoneV

NewAppointmentAlwaysConfirmed(data, hex) ==
    [user_id          |-> Some(data.user_id),
     family_member_id |-> data.family_member_id,
     doctor_id        |-> data.doctor_id,
     date_time        |-> data.date_time,
     duration_minutes |-> data.duration_minutes,
     status           |-> "CONFIRMED",
     confirmation_id  |-> ConfirmationIdFor(data, hex)]

\* a row that names one patient: the user only when no family member is named
NewAppointmentOnePatient(data, hex) ==
    [user_id          |-> IF IsNone(data.family_member_id) THEN Some(data.user_id) ELSE NoneV,
     family_member_id |-> data.family_member_id,
     doctor_id        |-> data.doctor_id,
     date_time        |-> data.date_time,
     duration_minutes |-> data.duration_minutes,
     status           |-> data.status,
     confirmation_id  |-> ConfirmationIdFor(data, hex)]

\* the Appointment object create_appointment builds from the request.  The
\* nullable reference columns user_id and family_member_id hold an optional
\* value.
NewAppointment(data, hex) ==
    [user_id          |-> Some(data.user_id),
     family_member_id |-> data.family_member_id,
     doctor_id        |-> data.doctor_id,
     date_time        |-> data.date_time,
     duration_minutes |-> data.duration_minutes,
     status           |-> data.status,
     confirmation_id  |-> ConfirmationIdFor(data, hex)]

UniqueNotEnforced(tbl, cid, self) == FALSE

\* Column(String(50), unique=True): a row other than `self` holds the identifier
UniqueViolation(tbl, cid, self) ==
    \E i \in DOMAIN tbl : i # self /\ tbl[i].confirmation_id = cid

\* an insert that stores the row before the constraint raises
CommitInsertNoRollback(tbl, row, storageUp) ==
    IF ~storageUp THEN [tbl |-> tbl, ret |-> Raised("OperationalError")]
    ELSE IF UniqueViolation(tbl, row.confirmation_id, 0)
         THEN [tbl |-> Append(tbl, row), ret |-> Raised("IntegrityError")]
         ELSE [tbl |-> Append(tbl, row), ret |-> Returned(Len(tbl) + 1)]

\* an insert behind a conflict check that counts rows of every status
CommitInsertStatusBlind(tbl, row, storageUp) ==
    IF ~storageUp THEN [tbl |-> tbl, ret |-> Raised("OperationalError")]
    ELSE IF \E i \in DOMAIN tbl : tbl[i].doctor_id = row.doctor_id /\ Overlaps(tbl[i], row)
         THEN [tbl |-> tbl, ret |-> Raised("Conflict")]
    ELSE IF UniqueViolation(tbl, row.confirmation_id, 0)
         THEN [tbl |-> tbl, ret |-> Raised("IntegrityError")]
         ELSE [tbl |-> Append(tbl, row), ret |-> Returned(Len(tbl) + 1)]

\* db.add(row); db.commit(): the table and the outcome.  The INSERT and its
\* constraint check are one database transaction: it stores the row or
\* raises and stores nothing.
CommitInsert(tbl, row, storageUp) ==
    IF ~storageUp THEN [tbl |-> tbl, ret |-> Raised("OperationalError")]
    ELSE IF UniqueViolation(tbl, row.confirmation_id, 0)
         THEN [tbl |-> tbl, ret |-> Raised("IntegrityError")]
         ELSE [tbl |-> Append(tbl, row), ret |-> Returned(Len(tbl) + 1)]

\* db.commit() of a session whose row `id` was modified to `row`
CommitUpdate(tbl, id, row, storageUp) ==
    IF ~storageUp THEN [tbl |-> tbl, ret |-> Raised("OperationalError")]
    ELSE IF UniqueViolation(tbl, row.confirmation_id, id)
         THEN [tbl |-> tbl, ret |-> Raised("IntegrityError")]
         ELSE [tbl |-> [tbl EXCEPT ![id] = row], ret |-> Returned(id)]

\* create_appointment as one call
CreateAppointment(w, data, hex, storageUp) ==
    /\ pc[w] = "idle"
    /\ IF ~ValidStatus(data.status)
       THEN /\ ret' = [ret EXCEPT ![w] = Raised("KeyError")]
            /\ UNCHANGED appointments
       ELSE LET out == CommitInsert(appointments, NewAppointment(data, hex), storageUp) IN
            /\ appointments' = out.tbl
            /\ ret' = [ret EXCEPT ![w] = out.ret]
    /\ UNCHANGED <<pc, pending, store, routeRet, queryVars, sessionVars>>

\* the update dictionaries callers pass to update_appointment
UpdateDicts ==
    { [status |-> o] : o \in {NoneV, Some("BOGUS")} \cup { Some(s) : s \in AppointmentStatusEnum } }
    \cup { [date_time |-> Some(t)] : t \in Starts }
    \cup { [duration_minutes |-> Some(d)] : d \in Durations }
    \cup { [doctor_id |-> Some(d)] : d \in Doctors }
    \cup { [confirmation_id |-> Some(SeededId)], [no_such_column |-> Some(1)] }
    \cup { [date_time |-> Some(30), status |-> Some("CONFIRMED")] }

\* for key, value in updates.items(): setattr when the column exists and
\* the value is not None
ApplyUpdates(row, updates) ==
    [k \in DOMAIN row |->
        IF k \in DOMAIN updates /\ ~IsNone(updates[k]) THEN updates[k][1] ELSE row[k]]

UpdateRaisesKeyError(updates) ==
    /\ "status" \in DOMAIN updates
    /\ ~IsNone(updates.status)
    /\ ~ValidStatus(updates.status[1])

UpdateAppointment(w, id, updates, storageUp) ==
    /\ pc[w] = "idle"
    /\ LET found == get_appointment_by_id(appointments, id) IN
       IF IsNone(found)
       THEN /\ ret' = [ret EXCEPT ![w] = ReturnedNone]
            /\ UNCHANGED appointments
       ELSE IF UpdateRaisesKeyError(updates)
       THEN /\ ret' = [ret EXCEPT ![w] = Raised("KeyError")]
            /\ UNCHANGED appointments
       ELSE LET out == CommitUpdate(appointments, id, ApplyUpdates(found[1], updates), storageUp) IN
            /\ appointments' = out.tbl
            /\ ret' = [ret EXCEPT ![w] = out.ret]
    /\ UNCHANGED <<pc, pending, store, routeRet, queryVars, sessionVars>>

CancelAppointment(w, id, storageUp) ==
    /\ pc[w] = "idle"
    /\ LET found == get_appointment_by_id(appointments, id) IN
       IF IsNone(found)
       THEN /\ ret' = [ret EXCEPT ![w] = ReturnedNone]
            /\ UNCHANGED appointments
       ELSE LET out == CommitUpdate(appointments, id,
                                    [found[1] EXCEPT !.status = "CANCELED"], storageUp) IN
            /\ appointments' = out.tbl
            /\ ret' = [ret EXCEPT ![w] = out.ret]
    /\ UNCHANGED <<pc, pending, store, routeRet, queryVars, sessionVars>>

\* `if new_duration_minutes:` is false for None and for 0
RescheduledRow(row, newStart, optDuration) ==
    [row EXCEPT !.date_time = newStart,
                !.status = "RESCHEDULED",
                !.duration_minutes =
                    IF IsNone(optDuration) \/ optDuration[1] = 0 THEN @ ELSE optDuration[1]]

RescheduleAppointment(w, id, newStart, optDuration, storageUp) ==
    /\ pc[w] = "idle"
    /\ LET found == get_appointment_by_id(appointments, id) IN
       IF IsNone(found)
       THEN /\ ret' = [ret EXCEPT ![w] = ReturnedNone]
            /\ UNCHANGED appointments
       ELSE LET out == CommitUpdate(appointments, id,
                                    RescheduledRow(found[1], newStart, optDuration), storageUp) IN
            /\ appointments' = out.tbl
            /\ ret' = [ret EXCEPT ![w] = out.ret]
    /\ UNCHANGED <<pc, pending, store, routeRet, queryVars, sessionVars>>

---------------------------------------------------------------------------
(* The rows the reference columns point to.  The users, family_members and *)
(* doctors tables are written by no operation modelled here.               *)

UserRows == {1, 2}
FamilyMemberRows == {7}
DoctorRows == Doctors

\* ForeignKey("users.id"), ForeignKey("family_members.id"),
\* ForeignKey("doctors.id"): a reference that is set and names no row
ForeignKeyViolation(row) ==
    \/ ~IsNone(row.user_id) /\ row.user_id[1] \notin UserRows
    \/ ~IsNone(row.family_member_id) /\ row.family_member_id[1] \notin FamilyMemberRows
    \/ row.doctor_id \notin DoctorRows

\* create_appointment on a database that enforces the foreign keys at the
\* INSERT (PostgreSQL, the default DATABASE_URL) or does not (SQLite, which
\* the engine setup also provides for)
CreateAppointmentOn(w, data, hex, storageUp, fkEnforced) ==
    IF /\ fkEnforced
       /\ storageUp
       /\ ValidStatus(data.status)
       /\ ForeignKeyViolation(NewAppointment(data, hex))
    THEN /\ pc[w] = "idle"
         /\ ret' = [ret EXCEPT ![w] = Raised("IntegrityError")]
         /\ UNCHANGED <<appointments, pc, pending, store, routeRet, queryVars, sessionVars>>
    ELSE CreateAppointment(w, data, hex, storageUp)

---------------------------------------------------------------------------
(* create_appointment in two steps, for concurrent request handlers: each  *)
(* handler has its own database session (get_db), builds its row and adds  *)
(* it to the session, and commits later.                                   *)

Add(w, data, hex) ==
    /\ pc[w] = "idle"
    /\ IF ~ValidStatus(data.status)
       THEN /\ ret' = [ret EXCEPT ![w] = Raised("KeyError")]
            /\ pc' = [pc EXCEPT ![w] = "done"]
            /\ UNCHANGED pending
       ELSE /\ pending' = [pending EXCEPT ![w] = Some(NewAppointment(data, hex))]
            /\ pc' = [pc EXCEPT ![w] = "added"]
            /\ UNCHANGED ret
    /\ UNCHANGED <<appointments, store, routeRet, queryVars, sessionVars>>

Commit(w, storageUp) ==
    /\ pc[w] = "added"
    /\ LET out == CommitInsert(appointments, pending[w][1], storageUp) IN
       /\ appointments' = out.tbl
       /\ ret' = [ret EXCEPT ![w] = out.ret]
    /\ pc' = [pc EXCEPT ![w] = "done"]
    /\ UNCHANGED <<pending, store, routeRet, queryVars, sessionVars>>

---------------------------------------------------------------------------
(* routes/session.py and routes/booking.py over the session store r.  A    *)
(* session is the dictionary stored under "session:apollo:<user>"; every   *)
(* write sets ex=3600, so a stored session may expire.                     *)

NoResponse == [route |-> "none", user |-> "", status |-> 0, request |-> NoneV, appointmentId |-> <<>>]
Response(route, u, status, request, apt) ==
    [route |-> route, user |-> u, status |-> status, request |-> request, appointmentId |-> apt]

\* data.dict() of a form without fields: the empty dictionary
EmptyForm == [k \in {} |-> NoneV]

\* the booking form a client posts: the doctor and the slot asked for, or
\* nothing
BookingDatas ==
    { [doctor_id |-> d, date_time |-> t, duration_minutes |-> DefaultDuration] :
        d \in Doctors, t \in Starts } \cup {EmptyForm}

\* not session.get("bookingData"): None and the empty dictionary are falsy
NoBookingData(session) == IsNone(session.bookingData) \/ DOMAIN session.bookingData[1] = {}

DigitChars == <<"0", "1", "2", "3", "4", "5", "6", "7", "8", "9">>

RECURSIVE IntToStr(_)
\* str(n) for n >= 0
IntToStr(n) == IF n < 10 THEN <<DigitChars[n + 1]>>
               ELSE IntToStr(n \div 10) \o <<DigitChars[(n % 10) + 1]>>

\* random.randint(1000, 9999): sample values
RandInts == {1000, 4821, 9999}

\* f"APT-{random.randint(1000, 9999)}"
AppointmentIdOf(n) == <<"A", "P", "T", "-">> \o IntToStr(n)

GetSession(u) ==
    /\ IF IsNone(store[u])
       THEN /\ store' = [store EXCEPT ![u] = Some([apolloUserId |-> u, bookingData |-> NoneV])]
            /\ routeRet' = Response("session", u, 200, NoneV, <<>>)
       ELSE /\ routeRet' = Response("session", u, 200, store[u][1].bookingData, <<>>)
            /\ UNCHANGED store
    /\ UNCHANGED <<appointments, pc, pending, ret, queryVars, sessionVars>>

UpdateForm(u, data) ==
    /\ IF IsNone(store[u])
       THEN /\ routeRet' = Response("update-booking-form", u, 404, NoneV, <<>>)
            /\ UNCHANGED store
       ELSE /\ store' = [store EXCEPT ![u] = Some([store[u][1] EXCEPT !.bookingData = Some(data)])]
            /\ routeRet' = Response("update-booking-form", u, 200, Some(data), <<>>)
    /\ UNCHANGED <<appointments, pc, pending, ret, queryVars, sessionVars>>

\* a route that asks for the session only
BookAppointmentWithoutForm(u, conflict, n) ==
    /\ IF IsNone(store[u])
       THEN routeRet' = Response("book-appointment", u, 400, NoneV, <<>>)
       ELSE IF conflict
       THEN routeRet' = Response("book-appointment", u, 409, store[u][1].bookingData, <<>>)
       ELSE routeRet' = Response("book-appointment", u, 200, store[u][1].bookingData,
                                 AppointmentIdOf(n))
    /\ UNCHANGED <<appointments, pc, pending, ret, store, queryVars, sessionVars>>

\* conflict is random.choice([True, False]); n is random.randint(1000, 9999)
BookAppointment(u, conflict, n) ==
    /\ IF IsNone(store[u]) \/ NoBookingData(store[u][1])
       THEN routeRet' = Response("book-appointment", u, 400, NoneV, <<>>)
       ELSE IF conflict
       THEN routeRet' = Response("book-appointment", u, 409, store[u][1].bookingData, <<>>)
       ELSE routeRet' = Response("book-appointment", u, 200, store[u][1].bookingData,
                                 AppointmentIdOf(n))
    /\ UNCHANGED <<appointments, pc, pending, ret, store, queryVars, sessionVars>>

\* the expiry set by ex=3600 passes
Expire(u) ==
    /\ ~IsNone(store[u])
    /\ store' = [store EXCEPT ![u] = NoneV]
    /\ UNCHANGED <<appointments, pc, pending, ret, routeRet, queryVars, sessionVars>>

---------------------------------------------------------------------------
(* Availability: the doctor_schedules table, the repository queries        *)
(* get_doctor_availability and get_appointments_by_doctor, and the route   *)
(* /doctor-availability.  Minute 0 is 2025-04-23T00:00:00, the date of the *)
(* slots the route answers, so "2025-04-23T10:00:00" is minute 600.        *)

MinutesPerDay == 24 * 60
DateOf(t) == t \div MinutesPerDay
MinuteOfDay(t) == t % MinutesPerDay

\* date.weekday(): 0-6 for Monday-Sunday; 2025-04-23 is a Wednesday
Weekday(t) == (DateOf(t) + 2) % 7

\* a DoctorSchedule row; start_time and end_time as minutes of the day
DoctorSchedule(doctor, day, start, end, available) ==
    [doctor_id |-> doctor, day_of_week |-> day, start_time |-> start, end_time |-> end,
     is_available |-> available]

\* Doctor.full_name of the doctors table
FullName == [d \in Doctors |-> IF d = 1 THEN "Dr. One" ELSE "Dr. Two"]

\* query.all() without order_by: the rows `ids` once each, in any order
AnyOrder(ids) ==
    { s \in [1..Cardinality(ids) -> ids] :
        \A i, j \in 1..Cardinality(ids) : i # j => s[i] # s[j] }

\* order_by(Appointment.date_time): ascending, rows of equal date_time in
\* any order
OrderedByDateTime(tbl, ids) ==
    { s \in AnyOrder(ids) :
        \A i, j \in 1..Cardinality(ids) : i < j => tbl[s[i]].date_time <= tbl[s[j]].date_time }

\* DoctorRepository.get_doctor_availability: the ids of the rows it selects
get_doctor_availability(tbl, doctor_id, date) ==
    { i \in DOMAIN tbl :
        /\ tbl[i].doctor_id = doctor_id
        /\ tbl[i].day_of_week = Weekday(date)
        /\ tbl[i].is_available }

\* AppointmentRepository.get_appointments_by_doctor: the ids of the rows it
\* selects (`if start_date:` and `if end_date:` skip a bound that is None)
get_appointments_by_doctor(tbl, doctor_id, optStart, optEnd) ==
    { i \in DOMAIN tbl :
        /\ tbl[i].doctor_id = doctor_id
        /\ IsNone(optStart) \/ tbl[i].date_time >= optStart[1]
        /\ IsNone(optEnd) \/ tbl[i].date_time <= optEnd[1] }

QueryResult(op, doctor, optStart, optEnd, rows) ==
    [op |-> op, doctor_id |-> doctor, from |-> optStart, to |-> optEnd, rows |-> rows]

GetDoctorAvailability(doctor_id, date) ==
    /\ \E rows \in AnyOrder(get_doctor_availability(schedules, doctor_id, date)) :
          queried' = Some(QueryResult("get_doctor_availability", doctor_id, Some(date), NoneV, rows))
    /\ UNCHANGED <<appointments, pc, pending, ret, store, routeRet, schedules, avail, sessionVars>>

GetAppointmentsByDoctor(doctor_id, optStart, optEnd) ==
    /\ \E rows \in OrderedByDateTime(appointments,
                    get_appointments_by_doctor(appointments, doctor_id, optStart, optEnd)) :
          queried' = Some(QueryResult("get_appointments_by_doctor", doctor_id, optStart, optEnd, rows))
    /\ UNCHANGED <<appointments, pc, pending, ret, store, routeRet, schedules, avail, sessionVars>>

\* the slots of get_mock_availability: 10:00, 10:30 and 11:00 of 2025-04-23
MockSlots == <<600, 630, 660>>

\* get_mock_availability(location, specialty, doctor=None); `doctor or ...`
\* takes the default for None and for ""
get_mock_availability(location, specialty, optDoctor) ==
    [location  |-> location,
     specialty |-> specialty,
     doctor    |-> IF IsNone(optDoctor) \/ optDoctor[1] = "" THEN "Any Available" ELSE optDoctor[1],
     slots     |-> MockSlots]

\* GET /doctor-availability
DoctorAvailability(location, specialty, optDoctor) ==
    /\ avail' = Some(get_mock_availability(location, specialty, optDoctor))
    /\ UNCHANGED <<appointments, pc, pending, ret, store, routeRet, schedules, queried, sessionVars>>

---------------------------------------------------------------------------
(* BookingStateRedisClient: the BookingState of a user is stored as JSON   *)
(* under "booking:state:<user>".  Of its optional fields the model keeps   *)
(* patient_name and reason; the others are read and written the same way.  *)

\* BookingState(user_id=..., session_id=...): the optional fields are None
BookingState(user_id, session_id) ==
    [user_id |-> user_id, session_id |-> session_id, patient_name |-> NoneV, reason |-> NoneV]

\* current_state.model_copy(update=updates): the fields named by `updates`
\* take its values, None included
model_copy(state, updates) ==
    [k \in DOMAIN state |-> IF k \in DOMAIN updates THEN updates[k] ELSE state[k]]

ReturnedState == [kind |-> "BookingState", id |-> 0]
ReturnedTrue == [kind |-> "True", id |-> 0]
ReturnedFalse == [kind |-> "False", id |-> 0]

\* every string a caller passes as the id of a key
Ids == Users \cup SessionIds

StateKey(user_id) == <<"booking:state:", user_id>>
ConversationKey(user_id) == <<"booking:conversation:", user_id>>
HistoryKey(session_id) == <<"conversation:", session_id>>
SessionKey(user_id) == <<"session:chatbook:", user_id>>

\* redis.set(state key, json, ex=ttl), then redis.delete(conversation key)
CreateNewBookingSession(user_id, session_id) ==
    /\ bookingStates' = [bookingStates EXCEPT ![user_id] = Some(BookingState(user_id, session_id))]
    /\ conversations' = [conversations EXCEPT ![user_id] = <<>>]
    /\ ttl' = (ttl \cup {StateKey(user_id)}) \ {ConversationKey(user_id)}
    /\ UNCHANGED <<appointments, pc, pending, ret, store, routeRet, queryVars>>
    /\ UNCHANGED <<current, histories, sessions, patched, agentVars>>

\* redis.get, json.loads and model_validate of the stored text of the state
get_booking_state(user_id) == bookingStates[user_id]

\* an update that starts from an empty state when the key holds nothing
ReadBookingStateUpsert(w, user_id, updates) ==
    /\ pc[w] = "idle"
    /\ current' = [current EXCEPT ![w] =
                     Some([user_id |-> user_id, updates |-> updates,
                           state |-> IF IsNone(get_booking_state(user_id))
                                     THEN BookingState(user_id, "")
                                     ELSE get_booking_state(user_id)[1]])]
    /\ pc' = [pc EXCEPT ![w] = "read"]
    /\ UNCHANGED <<appointments, pending, ret, store, routeRet, queryVars, bookingStates>>
    /\ UNCHANGED <<conversations, histories, sessions, ttl, patched, agentVars>>

\* update_booking_state up to get_booking_state: redis.get, json.loads and
\* model_validate; None is returned when the key holds nothing
ReadBookingState(w, user_id, updates) ==
    /\ pc[w] = "idle"
    /\ IF IsNone(get_booking_state(user_id))
       THEN /\ ret' = [ret EXCEPT ![w] = ReturnedNone]
            /\ pc' = [pc EXCEPT ![w] = "done"]
            /\ UNCHANGED current
       ELSE /\ current' = [current EXCEPT ![w] =
                            Some([user_id |-> user_id, updates |-> updates,
                                  state |-> get_booking_state(user_id)[1]])]
            /\ pc' = [pc EXCEPT ![w] = "read"]
            /\ UNCHANGED ret
    /\ UNCHANGED <<appointments, pending, store, routeRet, queryVars, bookingStates>>
    /\ UNCHANGED <<conversations, histories, sessions, ttl, patched, agentVars>>

\* the rest of update_booking_state: model_copy, redis.set(..., ex=ttl), return
WriteBookingState(w) ==
    /\ pc[w] = "read"
    /\ LET call == current[w][1] IN
       /\ bookingStates' = [bookingStates EXCEPT ![call.user_id] =
                               Some(model_copy(call.state, call.updates))]
       /\ ttl' = ttl \cup {StateKey(call.user_id)}
    /\ ret' = [ret EXCEPT ![w] = ReturnedState]
    /\ pc' = [pc EXCEPT ![w] = "done"]
    /\ UNCHANGED <<appointments, pending, store, routeRet, queryVars, current>>
    /\ UNCHANGED <<conversations, histories, sessions, patched, agentVars>>

\* a request handler that is not in the middle of a call
Free(w) == pc[w] \in {"idle", "done"}

\* state_deleted = redis.delete(state key) > 0; redis.delete(conversation key)
DeleteSession(w, user_id) ==
    /\ Free(w)
    /\ ret' = [ret EXCEPT ![w] = IF IsNone(bookingStates[user_id])
                                 THEN ReturnedFalse ELSE ReturnedTrue]
    /\ bookingStates' = [bookingStates EXCEPT ![user_id] = NoneV]
    /\ conversations' = [conversations EXCEPT ![user_id] = <<>>]
    /\ ttl' = ttl \ {StateKey(user_id), ConversationKey(user_id)}
    /\ UNCHANGED <<appointments, pc, pending, store, routeRet, queryVars>>
    /\ UNCHANGED <<current, histories, sessions, patched, agentVars>>

---------------------------------------------------------------------------
(* Conversation history.  A message a caller passes is a plain dict with   *)
(* role and content or a LangChain message object; what is stored is the   *)
(* JSON text of a dict, which json.loads gives back unchanged.  The        *)
(* timestamp the class adds to a stored dict is not kept here.             *)

DictMessage(role, content) == [kind |-> "dict", role |-> role, content |-> content]
LangChainMessage(type, content) == [kind |-> "message", role |-> type, content |-> content]

\* json.dumps of {"role", "content", "timestamp"}, read back by json.loads
StoredDict(msg) == [role |-> msg.role, content |-> msg.content]
\* json.dumps of msg.dict(), read back by json.loads
StoredMessage(msg) == [type |-> msg.role, content |-> msg.content]

\* redis_client.py: lrange(conversation key, 0, -1), json.loads of each item
ClassGetConversationHistory(convs, id) == convs[id]

\* langchain_integration.py: redis.get("conversation:<id>"), json.loads;
\* [] when the key holds nothing
PatchedGetConversationHistory(hists, id) == IF IsNone(hists[id]) THEN <<>> ELSE hists[id][1]

\* the method BookingStateRedisClient.get_conversation_history names
GetConversationHistory(isPatched, convs, hists, id) ==
    IF isPatched THEN PatchedGetConversationHistory(hists, id)
    ELSE ClassGetConversationHistory(convs, id)

get_conversation_history(id) == GetConversationHistory(patched, conversations, histories, id)

\* rpush(conversation key, json.dumps(message)); expire(conversation key, ttl)
AddConversationMessage(user_id, role, content) ==
    /\ conversations' = [conversations EXCEPT ![user_id] =
                            Append(@, StoredDict(DictMessage(role, content)))]
    /\ ttl' = ttl \cup {ConversationKey(user_id)}
    /\ UNCHANGED <<appointments, pc, pending, ret, store, routeRet, queryVars>>
    /\ UNCHANGED <<bookingStates, current, histories, sessions, patched, agentVars>>

\* the items rpush-ed before a message that is not a dict raises TypeError
RECURSIVE DictPrefix(_)
DictPrefix(messages) ==
    IF messages = <<>> \/ Head(messages).kind # "dict" THEN <<>>
    ELSE <<StoredDict(Head(messages))>> \o DictPrefix(Tail(messages))

\* redis_client.py save_conversation_history: delete, rpush of each message,
\* expire; an exception ends the call with False after the delete and the
\* rpush-es already made, and before the expire
ClassSaveConversationHistory(w, user_id, messages) ==
    LET stored == DictPrefix(messages)
        ok == Len(stored) = Len(messages)
    IN  /\ conversations' = [conversations EXCEPT ![user_id] = stored]
        /\ ttl' = IF ok /\ stored # <<>> THEN ttl \cup {ConversationKey(user_id)}
                  ELSE ttl \ {ConversationKey(user_id)}
        /\ ret' = [ret EXCEPT ![w] = IF ok THEN ReturnedTrue ELSE ReturnedFalse]
        /\ UNCHANGED histories

\* langchain_integration.py save_conversation_history: msg.dict() of each
\* message, then redis.set("conversation:<id>", json) with no expiry; a plain
\* dict has neither dict() nor content, the exception ends the call with
\* False before anything is written
PatchedSaveConversationHistory(w, session_id, messages) ==
    IF \A i \in 1..Len(messages) : messages[i].kind = "message"
    THEN /\ histories' = [histories EXCEPT ![session_id] =
                            Some([i \in 1..Len(messages) |-> StoredMessage(messages[i])])]
         /\ ttl' = ttl \ {HistoryKey(session_id)}
         /\ ret' = [ret EXCEPT ![w] = ReturnedTrue]
         /\ UNCHANGED conversations
    ELSE /\ ret' = [ret EXCEPT ![w] = ReturnedFalse]
         /\ UNCHANGED <<histories, ttl, conversations>>

SaveConversationHistory(w, id, messages) ==
    /\ Free(w)
    /\ IF patched THEN PatchedSaveConversationHistory(w, id, messages)
       ELSE ClassSaveConversationHistory(w, id, messages)
    /\ UNCHANGED <<appointments, pc, pending, store, routeRet, queryVars>>
    /\ UNCHANGED <<bookingStates, current, sessions, patched, agentVars>>

\* Redis removes a key whose expiry has passed
KeyExists(key) ==
    \/ \E u \in Users : key = StateKey(u) /\ ~IsNone(bookingStates[u])
    \/ \E i \in Ids : key = ConversationKey(i) /\ conversations[i] # <<>>
    \/ \E i \in Ids : key = HistoryKey(i) /\ ~IsNone(histories[i])
    \/ \E u \in Users : key = SessionKey(u) /\ ~IsNone(sessions[u])

ExpireKey(key) ==
    /\ key \in ttl
    /\ ttl' = ttl \ {key}
    /\ bookingStates' = [u \in Users |-> IF key = StateKey(u) THEN NoneV ELSE bookingStates[u]]
    /\ conversations' = [i \in Ids |-> IF key = ConversationKey(i) THEN <<>> ELSE conversations[i]]
    /\ histories' = [i \in Ids |-> IF key = HistoryKey(i) THEN NoneV ELSE histories[i]]
    /\ sessions' = [u \in Users |-> IF key = SessionKey(u) THEN NoneV ELSE sessions[u]]
    /\ UNCHANGED <<appointments, pc, pending, ret, store, routeRet, queryVars>>
    /\ UNCHANGED <<current, patched, agentVars>>

---------------------------------------------------------------------------
(* RedisClient: the session data of a user under "session:chatbook:<id>". *)

ReturnedSession == [kind |-> "Session", id |-> 0]

\* current_data.update(updates)
dict_update(data, updates) ==
    [k \in DOMAIN data \cup DOMAIN updates |->
        IF k \in DOMAIN updates THEN updates[k] ELSE data[k]]

\* redis.setex(key, ttl_seconds, json.dumps(data))
SetSession(w, user_id, data) ==
    /\ Free(w)
    /\ sessions' = [sessions EXCEPT ![user_id] = Some(data)]
    /\ ttl' = ttl \cup {SessionKey(user_id)}
    /\ ret' = [ret EXCEPT ![w] = ReturnedTrue]
    /\ UNCHANGED <<appointments, pc, pending, store, routeRet, queryVars>>
    /\ UNCHANGED <<bookingStates, current, conversations, histories, patched, agentVars>>

\* update_session up to `if not data: return None`
ReadSession(w, user_id, updates) ==
    /\ pc[w] = "idle"
    /\ IF IsNone(sessions[user_id])
       THEN /\ ret' = [ret EXCEPT ![w] = ReturnedNone]
            /\ pc' = [pc EXCEPT ![w] = "done"]
            /\ UNCHANGED current
       ELSE /\ current' = [current EXCEPT ![w] =
                            Some([user_id |-> user_id, updates |-> updates,
                                  state |-> sessions[user_id][1]])]
            /\ pc' = [pc EXCEPT ![w] = "readSession"]
            /\ UNCHANGED ret
    /\ UNCHANGED <<appointments, pending, store, routeRet, queryVars>>
    /\ UNCHANGED <<bookingStates, conversations, histories, sessions, ttl, patched, agentVars>>

\* the rest of update_session: dict.update, redis.setex, model_validate
WriteSession(w) ==
    /\ pc[w] = "readSession"
    /\ LET call == current[w][1] IN
       /\ sessions' = [sessions EXCEPT ![call.user_id] =
                          Some(dict_update(call.state, call.updates))]
       /\ ttl' = ttl \cup {SessionKey(call.user_id)}
    /\ ret' = [ret EXCEPT ![w] = ReturnedSession]
    /\ pc' = [pc EXCEPT ![w] = "done"]
    /\ UNCHANGED <<appointments, pending, store, routeRet, queryVars>>
    /\ UNCHANGED <<bookingStates, current, conversations, histories, patched, agentVars>>

---------------------------------------------------------------------------
(* BookingSessionRepository: the booking_sessions table.  A row keeps the  *)
(* columns the queries read; session_id is a unique column.                *)

BookingSessionStatusEnum == {"INITIALIZED", "IN_PROGRESS", "COMPLETED", "FAILED", "ABANDONED"}
ActiveStatuses == {"INITIALIZED", "IN_PROGRESS"}
DefaultTtlMinutes == 60
DefaultExtendMinutes == 30
DefaultEndStatus == "COMPLETED"

\* filter(session_id == session_id).first(): the position of the row, if any
get_session_by_id(tbl, session_id) ==
    IF \E i \in DOMAIN tbl : tbl[i].session_id = session_id
    THEN Some(CHOOSE i \in DOMAIN tbl : tbl[i].session_id = session_id)
    ELSE NoneV

\* a query without the status filter
ActiveWhateverStatus(tbl, user_id, t) ==
    LET rows == { i \in DOMAIN tbl : tbl[i].user_id = user_id /\ tbl[i].expires_at > t }
    IN  { i \in rows : \A j \in rows : tbl[j].created_at <= tbl[i].created_at }

\* filter(user_id, expires_at > now, status in (INITIALIZED, IN_PROGRESS))
\* .order_by(created_at.desc()).first(): the rows the query may return, rows
\* created at the same instant coming in either order; {} is None
get_active_session_by_user(tbl, user_id, t) ==
    LET rows == { i \in DOMAIN tbl : /\ tbl[i].user_id = user_id
                                     /\ tbl[i].expires_at > t
                                     /\ tbl[i].status \in ActiveStatuses }
    IN  { i \in rows : \A j \in rows : tbl[j].created_at <= tbl[i].created_at }

\* db.add and db.commit of a new row; the commit of a row whose session_id
\* is already stored fails with IntegrityError and stores nothing
create_session(user_id, session_id, ttl_minutes) ==
    /\ IF IsNone(get_session_by_id(bookingSessions, session_id))
       THEN /\ bookingSessions' = Append(bookingSessions,
                                    [session_id |-> session_id, user_id |-> user_id,
                                     status |-> "INITIALIZED",
                                     expires_at |-> now + ttl_minutes, created_at |-> now])
            /\ endCalls' = Append(endCalls, {})
       ELSE UNCHANGED <<bookingSessions, endCalls>>
    /\ UNCHANGED <<appointments, pc, pending, ret, store, routeRet, queryVars, redisVars, now, graph>>

extend_session(session_id, minutes) ==
    /\ LET session == get_session_by_id(bookingSessions, session_id) IN
       IF IsNone(session)
       THEN UNCHANGED bookingSessions
       ELSE bookingSessions' = [bookingSessions EXCEPT ![session[1]].expires_at = now + minutes]
    /\ UNCHANGED <<appointments, pc, pending, ret, store, routeRet, queryVars, redisVars>>
    /\ UNCHANGED <<endCalls, now, graph>>

end_session(session_id, status) ==
    /\ LET session == get_session_by_id(bookingSessions, session_id) IN
       IF IsNone(session)
       THEN UNCHANGED <<bookingSessions, endCalls>>
       ELSE /\ bookingSessions' = [bookingSessions EXCEPT ![session[1]].status = status,
                                                          ![session[1]].expires_at = now]
            /\ endCalls' = [endCalls EXCEPT ![session[1]] = @ \cup {status}]
    /\ UNCHANGED <<appointments, pc, pending, ret, store, routeRet, queryVars, redisVars>>
    /\ UNCHANGED <<now, graph>>

\* time passes between two calls
Tick(minutes) ==
    /\ now' = now + minutes
    /\ UNCHANGED <<appointments, pc, pending, ret, store, routeRet, queryVars, redisVars>>
    /\ UNCHANGED <<bookingSessions, endCalls, graph>>

---------------------------------------------------------------------------
(* BookingAgent: one run of the compiled workflow graph, as started by     *)
(* process_message.  Of the messages the run keeps the kind of the last    *)
(* one, of the booking state dict the keys that hold a truthy value.       *)

\* the fields of BookingState a request may have set, besides user_id and
\* session_id
BookingStateFields == {"patient_name", "reason", "doctor_preference"}
RequiredFields == {"patient_id", "specialty_id", "doctor_id", "appointment_reason", "preferred_date"}

\* app.invoke(state) is called without a config: LangGraph stops a run that
\* has not ended after its default number of steps with GraphRecursionError
RecursionLimit == 25

NoRun == [node |-> "none", last |-> "none", booking_state |-> {}, steps |-> 0]

should_continue(last, booking_state) ==
    IF last = "AIMessage with tool_calls" THEN "action"
    ELSE IF RequiredFields \subseteq booking_state THEN "END"
    ELSE "agent"

\* the node reached by the conditional edge, or the error of a run that has
\* used up its steps
NextNode(last, booking_state, steps) ==
    LET to == should_continue(last, booking_state)
    IN  IF to # "END" /\ steps >= RecursionLimit THEN "GraphRecursionError" ELSE to

\* process_message: booking_state.model_dump(exclude_unset=True), the
\* messages end with the HumanMessage just received, entry point "agent"
StartRun(fields) ==
    /\ graph.node \in {"none", "END", "GraphRecursionError"}
    /\ graph' = [node |-> "agent", last |-> "HumanMessage",
                 booking_state |-> {"user_id", "session_id"} \cup fields, steps |-> 0]
    /\ UNCHANGED <<appointments, pc, pending, ret, store, routeRet, queryVars, redisVars>>
    /\ UNCHANGED <<bookingSessions, endCalls, now>>

\* the node "agent": the messages become those of the ReAct agent, the last
\* of them an AIMessage with or without tool calls; booking_state is kept
AgentNode(toolCalls) ==
    /\ graph.node = "agent"
    /\ LET last == IF toolCalls THEN "AIMessage with tool_calls" ELSE "AIMessage"
       IN  graph' = [graph EXCEPT !.last = last, !.steps = @ + 1,
                                  !.node = NextNode(last, graph.booking_state, graph.steps + 1)]
    /\ UNCHANGED <<appointments, pc, pending, ret, store, routeRet, queryVars, redisVars>>
    /\ UNCHANGED <<bookingSessions, endCalls, now>>

\* the node "action" (ToolNode): the tool calls of the last message are run,
\* the messages end with a ToolMessage
ActionNode ==
    /\ graph.node = "action"
    /\ graph' = [graph EXCEPT !.last = "ToolMessage", !.steps = @ + 1,
                              !.node = NextNode("ToolMessage", graph.booking_state, graph.steps + 1)]
    /\ UNCHANGED <<appointments, pc, pending, ret, store, routeRet, queryVars, redisVars>>
    /\ UNCHANGED <<bookingSessions, endCalls, now>>

---------------------------------------------------------------------------
(* The calls made: <<arguments..., storageUp>>.  A storage failure is tried *)
(* on one representative call of each operation.                            *)

OptDurations == {NoneV, Some(60)}
OptStatuses == {NoneV, Some("CONFIRMED")}
OptIds == {NoneV, Some(SeededId)}

CreateRequests ==
    { AppointmentCreate(d, t, od, os, oc) :
        d \in Doctors, t \in Starts, od \in OptDurations, os \in OptStatuses, oc \in OptIds }

Hex0 == HexOf(<<"3", "f", "a", "0", "c">>, 3)
Hex1 == HexOf(<<"9", "b", "1", "e", "4">>, 5)
Request0 == AppointmentCreate(1, 0, NoneV, NoneV, NoneV)

CreateCalls ==
    { <<data, hex, TRUE>> : data \in { r \in CreateRequests : IsNone(r.confirmation_id) },
                            hex \in UuidHexes }
    \cup { <<data, Hex0, TRUE>> : data \in { r \in CreateRequests : ~IsNone(r.confirmation_id) } }
    \cup { <<AppointmentCreate(1, 0, NoneV, Some("BOGUS"), NoneV), Hex0, TRUE>>,
           <<AppointmentCreate(1, 0, NoneV, NoneV, Some(<<>>)), Hex0, TRUE>>,
           <<Request0, Hex0, FALSE>> }

\* ids a caller may name: the stored ones and one that is not stored
NamedIds == 1..(Len(appointments) + 1)

UpdateCalls ==
    { <<updates, TRUE>> : updates \in UpdateDicts } \cup { <<[status |-> Some("COMPLETED")], FALSE>> }

RescheduleCalls ==
    { <<t, od, TRUE>> : t \in Starts, od \in OptDurations \cup {Some(0)} } \cup { <<0, NoneV, FALSE>> }

---------------------------------------------------------------------------
(* Sequential use of the repository: one request handler, any sequence of  *)
(* create, update, cancel and reschedule calls.                            *)

\* nothing stored in Redis, no booking session, no run of the graph
InitSessionLayer ==
    /\ conversations = [i \in Ids |-> <<>>]
    /\ histories = [i \in Ids |-> NoneV]
    /\ sessions = [u \in Users |-> NoneV]
    /\ ttl = {}
    /\ bookingSessions = <<>>
    /\ endCalls = <<>>
    /\ now = 0
    /\ graph = NoRun

InitRepo ==
    /\ appointments = <<>>
    /\ pc = [w \in Workers |-> "idle"]
    /\ pending = [w \in Workers |-> NoneV]
    /\ ret = [w \in Workers |-> NoReturn]
    /\ store = [u \in Users |-> NoneV]
    /\ routeRet = NoResponse
    /\ schedules = <<>>
    /\ avail = NoneV
    /\ queried = NoneV
    /\ bookingStates = [u \in Users |-> NoneV]
    /\ current = [w \in Workers |-> NoneV]
    /\ InitSessionLayer
    /\ patched = FALSE

Init == InitRepo

Create == \E c \in CreateCalls : CreateAppointment(W1, c[1], c[2], c[3])

Update == \E id \in NamedIds, c \in UpdateCalls : UpdateAppointment(W1, id, c[1], c[2])

Cancel == \E id \in NamedIds, up \in BOOLEAN : CancelAppointment(W1, id, up)

Reschedule == \E id \in NamedIds, c \in RescheduleCalls :
                RescheduleAppointment(W1, id, c[1], c[2], c[3])

Next == Create \/ Update \/ Cancel \/ Reschedule

Spec == Init /\ [][Next]_vars

---------------------------------------------------------------------------
(* Concurrent booking: every request handler makes one create_appointment  *)
(* call against an empty table; the steps of the calls interleave.         *)

ConcurrentCalls ==
    { <<AppointmentCreate(d, t, NoneV, os, NoneV), hex>> :
        d \in Doctors, t \in Starts, os \in OptStatuses, hex \in UuidHexesWide }
    \cup { <<AppointmentCreate(1, 0, Some(60), NoneV, Some(SeededId)), Hex0>> }
    \cup { <<AppointmentCreate(1, 0, NoneV, Some("BOGUS"), NoneV), Hex0>>,
           <<AppointmentCreate(1, 0, NoneV, NoneV, Some(<<>>)), Hex0>> }

BeginCreate == \E w \in Workers, c \in ConcurrentCalls : Add(w, c[1], c[2])

FinishCreate == \E w \in Workers, up \in BOOLEAN : Commit(w, up)

NextConcurrent == BeginCreate \/ FinishCreate

SpecConcurrent == InitRepo /\ [][NextConcurrent]_vars

---------------------------------------------------------------------------
(* The booking routes over the session store; they never touch the         *)
(* appointments table, which stays empty here.                             *)

Session == \E u \in Users : GetSession(u)

Form == \E u \in Users, data \in BookingDatas : UpdateForm(u, data)

Book == \E u \in Users, conflict \in BOOLEAN, n \in RandInts : BookAppointment(u, conflict, n)

Expiry == \E u \in Users : Expire(u)

NextRoute == Session \/ Form \/ Book \/ Expiry

SpecRoute == InitRepo /\ [][NextRoute]_vars

---------------------------------------------------------------------------
(* Booking requests that vary the patient, the doctor and the duration,    *)
(* followed by updates of the stored rows.  9 and 8 name no row.           *)

PatientRequests ==
    { AppointmentCreateFor(1, of, 1, 0, NoneV, NoneV, NoneV) : of \in {NoneV, Some(7), Some(8)} }
    \cup { AppointmentCreateFor(9, NoneV, 1, 0, NoneV, NoneV, NoneV),
           AppointmentCreateFor(1, NoneV, 9, 0, NoneV, NoneV, NoneV),
           AppointmentCreateFor(1, NoneV, 1, 0, Some(0), NoneV, NoneV),
           AppointmentCreateFor(1, Some(7), 1, 0, Some(-30), NoneV, NoneV) }

PatientCreateCalls ==
    { <<data, hex, TRUE, fk>> : data \in PatientRequests, hex \in {Hex0, Hex1}, fk \in BOOLEAN }
    \cup { <<AppointmentCreateFor(1, Some(7), 1, 0, NoneV, NoneV, NoneV), Hex0, FALSE, TRUE>> }

PatientUpdateCalls ==
    { <<[user_id |-> NoneV], TRUE>>,
      <<[user_id |-> Some(Some(2))], TRUE>>,
      <<[family_member_id |-> NoneV], TRUE>>,
      <<[family_member_id |-> Some(Some(7))], TRUE>>,
      <<[user_id |-> NoneV, family_member_id |-> Some(Some(7))], TRUE>>,
      <<[status |-> Some("CONFIRMED")], TRUE>> }

CreateForPatient ==
    \E c \in PatientCreateCalls : CreateAppointmentOn(W1, c[1], c[2], c[3], c[4])

UpdatePatient ==
    \E id \in NamedIds, c \in PatientUpdateCalls : UpdateAppointment(W1, id, c[1], c[2])

NextPatient == CreateForPatient \/ UpdatePatient

SpecPatient == InitRepo /\ [][NextPatient]_vars

---------------------------------------------------------------------------
(* Availability queries over a schedule table and the appointments booked  *)
(* so far.  A window is Wednesday 09:00-10:00 (the date of minute 0) unless *)
(* said otherwise.                                                         *)

ScheduleTables ==
    { <<>>,
      <<DoctorSchedule(1, 2, 540, 600, TRUE)>>,
      <<DoctorSchedule(1, 2, 600, 700, TRUE)>>,
      <<DoctorSchedule(1, 2, 540, 600, FALSE), DoctorSchedule(1, 3, 540, 600, TRUE),
        DoctorSchedule(2, 2, 600, 690, TRUE), DoctorSchedule(2, 2, 540, 600, TRUE)>> }

InitSlots ==
    /\ appointments = <<>>
    /\ pc = [w \in Workers |-> "idle"]
    /\ pending = [w \in Workers |-> NoneV]
    /\ ret = [w \in Workers |-> NoReturn]
    /\ store = [u \in Users |-> NoneV]
    /\ routeRet = NoResponse
    /\ schedules \in ScheduleTables
    /\ avail = NoneV
    /\ queried = NoneV
    /\ bookingStates = [u \in Users |-> NoneV]
    /\ current = [w \in Workers |-> NoneV]
    /\ InitSessionLayer
    /\ patched = FALSE

\* bookings at 09:15 and 10:00 of the Wednesday
SlotCreateCalls ==
    { <<AppointmentCreate(1, t, NoneV, Some(st), NoneV), hex, TRUE>> :
        t \in {555, 600}, st \in {"CONFIRMED", "CANCELED"}, hex \in {Hex0, Hex1} }
    \cup { <<AppointmentCreate(2, 600, NoneV, NoneV, NoneV), Hex1, TRUE>> }

\* the date ranges asked for: none, from 09:30 to the end of the day, the
\* hour before 10:00, from 10:00 on
DateRanges ==
    { <<NoneV, NoneV>>, <<Some(570), Some(1439)>>, <<Some(540), Some(599)>>, <<Some(600), NoneV>> }

Locations == {"Downtown", "Uptown"}
DoctorParams == {NoneV, Some(""), Some("Dr. One"), Some("Dr. Two")}

BookSlot == \E c \in SlotCreateCalls : CreateAppointment(W1, c[1], c[2], c[3])

QueryWindows == \E d \in Doctors, t \in {0, MinutesPerDay} : GetDoctorAvailability(d, t)

QueryAppointments == \E d \in Doctors, r \in DateRanges : GetAppointmentsByDoctor(d, r[1], r[2])

QuerySlots == \E l \in Locations, od \in DoctorParams : DoctorAvailability(l, "Cardiology", od)

NextSlots == BookSlot \/ QueryWindows \/ QueryAppointments \/ QuerySlots

SpecSlots == InitSlots /\ [][NextSlots]_vars

---------------------------------------------------------------------------
(* Concurrent updates of booking states: sessions are created, then every  *)
(* request handler makes one update_booking_state call; the reads and      *)
(* writes of the calls interleave.                                         *)

StateUpdates ==
    { [patient_name |-> Some("Ann")],
      [reason |-> Some("Check-up")],
      [patient_name |-> Some("Bob"), reason |-> NoneV] }

NewSession ==
    /\ \A w \in Workers : pc[w] = "idle"
    /\ \E u \in Users, sid \in SessionIds : CreateNewBookingSession(u, sid)

BeginUpdate == \E w \in Workers, u \in Users, updates \in StateUpdates : ReadBookingState(w, u, updates)

FinishUpdate == \E w \in Workers : WriteBookingState(w)

NextSession == NewSession \/ BeginUpdate \/ FinishUpdate

SpecSession == InitRepo /\ [][NextSession]_vars

---------------------------------------------------------------------------
(* Booking states that are deleted while they are updated: sessions are    *)
(* created while no handler is in a call, then the handlers update and     *)
(* delete them in any interleaving.  No key expires in these runs.         *)

EndSession == \E w \in Workers, u \in Users : DeleteSession(w, u)

NextDelete == NewSession \/ BeginUpdate \/ FinishUpdate \/ EndSession

SpecDelete == InitRepo /\ [][NextDelete]_vars

---------------------------------------------------------------------------
(* The keys of both Redis clients under updates and expiry: one handler    *)
(* serves one request after the other; booking states and chat sessions    *)
(* are stored, updated and expire.                                         *)

SessionDatas == { [step |-> "start"] }
SessionUpdates == { [step |-> "slots"], [name |-> "Ann"] }

OpenSession == \E u \in Users : CreateNewBookingSession(u, "s1")

StoreSession == \E u \in Users, data \in SessionDatas : SetSession(W1, u, data)

BeginStateUpdate == \E u \in Users, updates \in StateUpdates : ReadBookingState(W1, u, updates)

FinishStateUpdate == WriteBookingState(W1)

BeginSessionUpdate == \E u \in Users, updates \in SessionUpdates : ReadSession(W1, u, updates)

FinishSessionUpdate == WriteSession(W1)

\* the handler has answered its request and takes the next one
NextRequest ==
    /\ pc[W1] = "done"
    /\ pc' = [pc EXCEPT ![W1] = "idle"]
    /\ UNCHANGED <<appointments, pending, ret, store, routeRet, queryVars, sessionVars>>

KeyExpiry == \E key \in ttl : ExpireKey(key)

NextRedis ==
    \/ OpenSession
    \/ BeginStateUpdate
    \/ FinishStateUpdate
    \/ StoreSession
    \/ BeginSessionUpdate
    \/ FinishSessionUpdate
    \/ NextRequest
    \/ KeyExpiry

SpecRedis == InitRepo /\ [][NextRedis]_vars

---------------------------------------------------------------------------
(* Conversation history, in the build that imports                         *)
(* app.utils.langchain_integration and in the build that does not: one     *)
(* handler creates and deletes sessions, appends messages and saves        *)
(* histories, and keys expire.                                             *)

MaxMessages == 2

\* the messages a caller appends
MessageArgs == { <<"user", "hi">>, <<"assistant", "ok">> }

\* the histories a caller saves: dicts, LangChain messages, one of each
HistoryLists ==
    { <<DictMessage("user", "hi")>>,
      <<LangChainMessage("human", "hi"), LangChainMessage("ai", "ok")>>,
      <<DictMessage("user", "hi"), LangChainMessage("ai", "ok")>> }

InitHistory ==
    /\ appointments = <<>>
    /\ pc = [w \in Workers |-> "idle"]
    /\ pending = [w \in Workers |-> NoneV]
    /\ ret = [w \in Workers |-> NoReturn]
    /\ store = [u \in Users |-> NoneV]
    /\ routeRet = NoResponse
    /\ schedules = <<>>
    /\ avail = NoneV
    /\ queried = NoneV
    /\ bookingStates = [u \in Users |-> NoneV]
    /\ current = [w \in Workers |-> NoneV]
    /\ InitSessionLayer
    /\ patched \in BOOLEAN

StartSession == \E u \in Users, sid \in SessionIds : CreateNewBookingSession(u, sid)

AddMessage ==
    \E u \in Users, m \in MessageArgs :
        /\ Len(conversations[u]) < MaxMessages
        /\ AddConversationMessage(u, m[1], m[2])

SaveHistory == \E u \in Users, messages \in HistoryLists : SaveConversationHistory(W1, u, messages)

DropSession == \E u \in Users : DeleteSession(W1, u)

NextHistory == StartSession \/ AddMessage \/ SaveHistory \/ DropSession \/ KeyExpiry

SpecHistory == InitHistory /\ [][NextHistory]_vars

---------------------------------------------------------------------------
(* Runs of the BookingAgent graph: process_message starts a run with the   *)
(* booking state of the request, the language model answers with or        *)
(* without tool calls.                                                     *)

Run == \E fields \in SUBSET BookingStateFields : StartRun(fields)

Agent == \E toolCalls \in BOOLEAN : AgentNode(toolCalls)

NextAgent == Run \/ Agent \/ ActionNode

SpecAgent == InitRepo /\ [][NextAgent]_vars

---------------------------------------------------------------------------
(* The booking_sessions table: sessions are created, extended and ended    *)
(* under the session ids of SessionIds while time passes.                  *)

MaxNow == 90
ClockStep == 30

\* the statuses end_session is called with: the default, and one of the
\* others of the enum
EndStatuses == {DefaultEndStatus, "IN_PROGRESS"}

CreateSession == \E u \in UserRows, sid \in SessionIds : create_session(u, sid, DefaultTtlMinutes)

ExtendSession == \E sid \in SessionIds : extend_session(sid, DefaultExtendMinutes)

EndBookingSession == \E sid \in SessionIds, status \in EndStatuses : end_session(sid, status)

TimePasses ==
    /\ now < MaxNow
    /\ Tick(ClockStep)

NextBookingSessions == CreateSession \/ ExtendSession \/ EndBookingSession \/ TimePasses

SpecBookingSessions == InitRepo /\ [][NextBookingSessions]_vars

---------------------------------------------------------------------------
(* Updates, cancellations and reschedules of a table of at most two        *)
(* appointments, under ids that are stored and an id that is not.          *)

FrameCreateCalls ==
    { <<Request0, Hex0, TRUE>>,
      <<AppointmentCreate(2, 30, Some(60), Some("CONFIRMED"), Some(SeededId)), Hex0, TRUE>> }

FrameUpdateCalls ==
    { <<[status |-> Some("COMPLETED")], TRUE>>,
      <<[date_time |-> Some(30)], TRUE>>,
      <<[duration_minutes |-> Some(60)], FALSE>> }

FrameRescheduleCalls == { <<30, NoneV, TRUE>>, <<0, Some(60), TRUE>>, <<0, NoneV, FALSE>> }

CreateForFrame == \E c \in FrameCreateCalls : CreateAppointment(W1, c[1], c[2], c[3])

UpdateForFrame == \E id \in NamedIds, c \in FrameUpdateCalls : UpdateAppointment(W1, id, c[1], c[2])

RescheduleForFrame ==
    \E id \in NamedIds, c \in FrameRescheduleCalls : RescheduleAppointment(W1, id, c[1], c[2], c[3])

NextFrame == CreateForFrame \/ UpdateForFrame \/ Cancel \/ RescheduleForFrame

SpecFrame == InitRepo /\ [][NextFrame]_vars

---------------------------------------------------------------------------
(* Properties *)

SameDoctorOverlap(a, b) == a.doctor_id = b.doctor_id /\ Overlaps(a, b)

\* the stored occupying appointments that a row overlaps
OccupyingOverlaps(tbl, row) ==
    { i \in DOMAIN tbl : Occupies(tbl[i]) /\ SameDoctorOverlap(tbl[i], row) }

\* the row a step appended
NewRow == appointments'[Len(appointments')]
RowAdded == Len(appointments') = Len(appointments) + 1

AllDone == \A w \in Workers : pc[w] = "done"

\* C1: under every interleaving of concurrent booking calls for one doctor
\* no state holds two CONFIRMED appointments of that doctor whose intervals
\* overlap.
C1_NoOverlappingConfirmed ==
    \A i, j \in DOMAIN appointments :
        (i # j /\ appointments[i].status = "CONFIRMED" /\ appointments[j].status = "CONFIRMED")
            => ~SameDoctorOverlap(appointments[i], appointments[j])

\* C2: when all N concurrent calls for one doctor ask for mutually
\* overlapping intervals (valid requests for CONFIRMED, storage available,
\* nothing stored before), exactly one returns a persisted CONFIRMED
\* appointment and every other call returns Conflict.
C2_Precondition ==
    /\ AllDone
    /\ \A w \in Workers : ~IsNone(pending[w])
    /\ \A w \in Workers :
        /\ pending[w][1].status = "CONFIRMED"
        /\ ret[w].kind \notin {"OperationalError", "IntegrityError", "KeyError"}
        /\ \A v \in Workers : SameDoctorOverlap(pending[w][1], pending[v][1])

C2_ExactlyOneSucceeds ==
    C2_Precondition =>
        \E w \in Workers :
            /\ ret[w].kind = "Appointment"
            /\ appointments[ret[w].id].status = "CONFIRMED"
            /\ \A v \in Workers \ {w} : ret[v].kind = "Conflict"

\* C3: after any sequence of create, update, reschedule and cancel calls no
\* doctor has two REQUESTED or CONFIRMED appointments whose intervals overlap.
C3_NoOverlappingOccupying ==
    \A i, j \in DOMAIN appointments :
        (i # j /\ Occupies(appointments[i]) /\ Occupies(appointments[j]))
            => ~SameDoctorOverlap(appointments[i], appointments[j])

\* C4: a booking request (valid, its identifier unused, storage available)
\* that overlaps a stored REQUESTED or CONFIRMED appointment of the same
\* doctor fails with Conflict and adds no row; a request that only touches
\* stored appointments is stored.
C4_OverlapRejected ==
    [][\A c \in CreateCalls :
         LET row == NewAppointment(c[1], c[2]) IN
         (/\ c[3]
          /\ ValidStatus(c[1].status)
          /\ ~UniqueViolation(appointments, row.confirmation_id, 0)
          /\ CreateAppointment(W1, c[1], c[2], c[3]))
            => IF OccupyingOverlaps(appointments, row) # {}
               THEN appointments' = appointments /\ ret'[W1].kind = "Conflict"
               ELSE RowAdded]_vars

\* C5: a booking request for a slot that no REQUESTED or CONFIRMED
\* appointment of the doctor overlaps is answered with a confirmation and the
\* appointment is stored; 409 is answered only when the slot is taken.
C5_ConflictOnlyWhenTaken ==
    (routeRet.route = "book-appointment" /\ ~IsNone(routeRet.request)) =>
        IF OccupyingOverlaps(appointments, routeRet.request[1]) = {}
        THEN /\ routeRet.status = 200
             /\ \E i \in DOMAIN appointments :
                    /\ appointments[i].doctor_id = routeRet.request[1].doctor_id
                    /\ appointments[i].date_time = routeRet.request[1].date_time
        ELSE routeRet.status = 409

\* C6: a create_appointment call that raises (a unique-constraint violation
\* on the confirmation identifier, a storage failure) leaves the stored rows
\* as they were before it.
C6_FailedInsertLeavesNoRow ==
    [][\A w \in Workers :
         (pc[w] = "added" /\ pc'[w] = "done" /\ ret'[w].kind # "Appointment")
            => appointments' = appointments]_vars

C6_Witness ==
    \E w \in Workers :
        /\ pc[w] = "done"
        /\ ret[w].kind = "IntegrityError"
        /\ Len(appointments) = 1
        /\ appointments[1].confirmation_id = pending[w][1].confirmation_id

C8_UniqueConfirmationId ==
    \A i, j \in DOMAIN appointments :
        i # j => appointments[i].confirmation_id # appointments[j].confirmation_id

C8_Witness ==
    /\ Len(appointments) = 2
    /\ ret[W1].kind = "IntegrityError"

IsBookingId(cid, n) ==
    /\ Len(cid) = 3 + n
    /\ SubSeq(cid, 1, 3) = <<"B", "K", "-">>
    /\ \A i \in 4..Len(cid) : cid[i] \in HexUpperChars

\* the rows built by the calls that supply no identifier (None or "")
GeneratedRows ==
    { NewAppointment(c[1], c[2]) : c \in { x \in ConcurrentCalls : Falsy(x[1].confirmation_id) } }

\* a step in which a handler builds such a row gives it an identifier of
\* this shape
GeneratedIdsAre(n) ==
    \A w \in Workers :
        (pc[w] = "idle" /\ pc'[w] = "added" /\ pending'[w][1] \in GeneratedRows)
            => IsBookingId(pending'[w][1].confirmation_id, n)

\* C9 as stated: a generated identifier is BK- and exactly 8 characters from
\* 0-9, A-F.
C9_GeneratedIdHasEightHex == [][GeneratedIdsAre(8)]_vars

\* C9 amended: an identifier generated by create_appointment is BK- and
\* exactly 5 characters from 0-9, A-F.
C9_GeneratedIdHasFiveHex == [][GeneratedIdsAre(GeneratedIdLen)]_vars

C9_Witness ==
    \E w \in Workers :
        /\ ret[w].kind = "Appointment"
        /\ appointments[ret[w].id].confirmation_id = <<"B", "K", "-", "D", "0", "7", "7", "A">>

\* C10: a booking request over the interval of an appointment that is
\* CANCELED, COMPLETED or RESCHEDULED is not rejected because of it: when the
\* request overlaps no REQUESTED or CONFIRMED appointment of the doctor and
\* its identifier is unused, it is stored.
C10_FreeStatusesDoNotBlock ==
    \A i \in DOMAIN appointments :
        ~Occupies(appointments[i]) =>
            \A c \in CreateCalls :
                LET row == NewAppointment(c[1], c[2]) IN
                (/\ c[3]
                 /\ ValidStatus(c[1].status)
                 /\ SameDoctorOverlap(appointments[i], row)
                 /\ OccupyingOverlaps(appointments, row) = {}
                 /\ ~UniqueViolation(appointments, row.confirmation_id, 0))
                    => CommitInsert(appointments, row, c[3]).ret.kind = "Appointment"

C10_Witness ==
    /\ Len(appointments) = 2
    /\ appointments[1].status \in {"CANCELED", "COMPLETED", "RESCHEDULED"}
    /\ appointments[2].status = "CONFIRMED"
    /\ SameDoctorOverlap(appointments[1], appointments[2])
    /\ ret[W1] = Returned(2)

TerminalStatuses == {"CANCELED", "COMPLETED", "RESCHEDULED"}

\* C11: in no step of a sequence of create, update, cancel and reschedule
\* calls does a stored appointment in CANCELED, COMPLETED or RESCHEDULED
\* change its status, nor a CONFIRMED appointment return to REQUESTED.
C11_StatusOnlyMovesForward ==
    [][\A i \in DOMAIN appointments :
         /\ appointments[i].status \in TerminalStatuses
                => appointments'[i].status = appointments[i].status
         /\ appointments[i].status = "CONFIRMED"
                => appointments'[i].status # "REQUESTED"]_vars

\* a request that names a user, a family member or a doctor that has no row
MissingReference(data) ==
    \/ data.user_id \notin UserRows
    \/ ~IsNone(data.family_member_id) /\ data.family_member_id[1] \notin FamilyMemberRows
    \/ data.doctor_id \notin DoctorRows

\* the end of the requested interval is not after its start
EndNotAfterStart(data) == data.date_time + data.duration_minutes <= data.date_time

\* C12: a booking request that names a doctor or patient without a row is
\* rejected with NotFound, one whose end is not after its start with a
\* validation error, and neither stores a row.
C12_RejectedBeforeInsert ==
    [][\A c \in PatientCreateCalls :
         (/\ c[3]
          /\ MissingReference(c[1]) \/ EndNotAfterStart(c[1])
          /\ CreateAppointmentOn(W1, c[1], c[2], c[3], c[4]))
            => /\ appointments' = appointments
               /\ \/ MissingReference(c[1]) /\ ret'[W1].kind = "NotFound"
                  \/ EndNotAfterStart(c[1]) /\ ret'[W1].kind = "ValidationError"]_vars

\* C13 as stated: every stored appointment has exactly one of the user
\* reference and the family-member reference set.
C13_ExactlyOnePatient ==
    \A i \in DOMAIN appointments :
        IsNone(appointments[i].user_id) # IsNone(appointments[i].family_member_id)

\* C13 amended: every stored appointment has its user reference set, and the
\* family-member reference is set besides it or not at all, after any
\* sequence of create and update calls.
C13_UserReferenceSet ==
    \A i \in DOMAIN appointments : ~IsNone(appointments[i].user_id)

C13_Witness ==
    /\ Len(appointments) = 2
    /\ ~IsNone(appointments[1].user_id) /\ ~IsNone(appointments[1].family_member_id)
    /\ ~IsNone(appointments[2].user_id) /\ IsNone(appointments[2].family_member_id)
    /\ ret[W1] = Returned(1)

\* the length of a slot: the slots the route answers are 30 minutes apart
SlotMinutes == 30

\* a step in which /doctor-availability answers, and its answer
Answered == avail' # avail
Answer == avail'[1]

\* the doctors the answer is about
NamedDoctors == { d \in Doctors : FullName[d] = Answer.doctor }

Slots == { Answer.slots[k] : k \in DOMAIN Answer.slots }

\* the active windows of doctor d on the weekday of minute t
Windows(d, t) == { schedules[i] : i \in get_doctor_availability(schedules, d, t) }

\* the 30-minute candidates of a window on the date of minute 0
Candidates(w) ==
    { w.start_time + SlotMinutes * k : k \in 0..(((w.end_time - w.start_time) \div SlotMinutes) - 1) }

\* the stored REQUESTED or CONFIRMED appointments of doctor d that overlap
\* the slot starting at minute t
OccupiedBy(d, t) ==
    { i \in DOMAIN appointments :
        /\ appointments[i].doctor_id = d
        /\ Occupies(appointments[i])
        /\ t < EndOf(appointments[i])
        /\ t + SlotMinutes > appointments[i].date_time }

\* C14: every slot answered for a doctor lies inside [start_time, end_time)
\* of an active schedule row of that doctor for the slot's weekday, as a
\* 30-minute interval.
C14_SlotsInsideActiveWindow ==
    [][Answered =>
         \A d \in NamedDoctors, t \in Slots :
            \E w \in Windows(d, t) :
                /\ w.start_time <= MinuteOfDay(t)
                /\ MinuteOfDay(t) + SlotMinutes <= w.end_time]_vars

\* C15: no slot answered for a doctor overlaps a REQUESTED or CONFIRMED
\* appointment of that doctor.
C15_NoSlotOverlapsOccupying ==
    [][Answered => \A d \in NamedDoctors, t \in Slots : OccupiedBy(d, t) = {}]_vars

\* C16: the appointments found for a doctor and a range
\* [start, end] are exactly the doctor's REQUESTED or CONFIRMED appointments
\* whose interval [date_time, date_time + duration) intersects the range.
C16_OccupyingIntersectingRange ==
    [][(queried' # queried /\ queried'[1].op = "get_appointments_by_doctor"
          /\ ~IsNone(queried'[1].from) /\ ~IsNone(queried'[1].to)) =>
         LET q == queried'[1] IN
         \A i \in DOMAIN appointments :
            (\E k \in DOMAIN q.rows : q.rows[k] = i)
                <=> /\ appointments[i].doctor_id = q.doctor_id
                    /\ Occupies(appointments[i])
                    /\ appointments[i].date_time <= q.to[1]
                    /\ EndOf(appointments[i]) > q.from[1]]_vars

\* C17: for a doctor without appointments whose one active window of the
\* date is [s, e), the slots answered are s, s + 30, ... : floor((e - s) / 30)
\* of them.
C17_WindowYieldsAllSlots ==
    [][Answered =>
         \A d \in NamedDoctors : \A w \in Windows(d, 0) :
            (/\ Windows(d, 0) = {w}
             /\ \A i \in DOMAIN appointments : appointments[i].doctor_id # d)
                => Answer.slots =
                     [k \in 1..((w.end_time - w.start_time) \div SlotMinutes) |->
                        w.start_time + SlotMinutes * (k - 1)]]_vars

\* C18: every 30-minute candidate of an active window of the doctor that
\* overlaps no REQUESTED or CONFIRMED appointment of the doctor is answered.
C18_FreeCandidatesReturned ==
    [][Answered =>
         \A d \in NamedDoctors : \A w \in Windows(d, 0) : \A t \in Candidates(w) :
            OccupiedBy(d, t) = {} => t \in Slots]_vars

\* C19: the slots answered are ordered by date and start time, and a doctor
\* with no active schedule row gets the empty sequence.
C19_OrderedAndEmptyWithoutWindows ==
    [][Answered =>
         /\ \A k, l \in DOMAIN Answer.slots : k < l => Answer.slots[k] <= Answer.slots[l]
         /\ \A d \in NamedDoctors :
                (\A i \in DOMAIN schedules :
                    schedules[i].doctor_id = d => ~schedules[i].is_available)
                    => Answer.slots = <<>>]_vars

\* C20: when the update_booking_state calls of the handlers have all
\* returned a state, were for the same user and set disjoint fields, the
\* stored state holds every field with the value its call wrote.
C20_NoLostUpdate ==
    (/\ AllDone
     /\ \A w \in Workers : ret[w] = ReturnedState
     /\ \A w, v \in Workers :
            /\ current[w][1].user_id = current[v][1].user_id
            /\ w # v => DOMAIN current[w][1].updates \cap DOMAIN current[v][1].updates = {})
        => \A w \in Workers :
              LET call == current[w][1] IN
              \A k \in DOMAIN call.updates :
                  bookingStates[call.user_id][1][k] = call.updates[k]

\* C21: a booking state that is not stored (no key expires in SpecDelete, so
\* after a session has been created for the user it is missing only through
\* delete_session) is still not stored after every step that is not a
\* create_new_booking_session for that user: no update writes it back.
C21_DeletedStateStaysDeleted ==
    [][\A u \in Users :
         (/\ IsNone(get_booking_state(u))
          /\ ~ \E sid \in SessionIds : CreateNewBookingSession(u, sid))
            => IsNone(get_booking_state(u)')]_vars

AllKeys ==
    { StateKey(u) : u \in Users } \cup { SessionKey(u) : u \in Users }
    \cup { ConversationKey(i) : i \in Ids } \cup { HistoryKey(i) : i \in Ids }

\* C23: every booking-state, session and conversation-history key that
\* exists carries an expiry.
C23_EveryKeyHasTtl == \A key \in AllKeys : KeyExists(key) => key \in ttl

\* C24: delete_session(user) returns True exactly when a booking state was
\* stored for the user; after it the user has no booking state and no
\* conversation history, and what is stored for every other user is as it
\* was.
C24_DeleteRemovesStateAndHistory ==
    [][\A w \in Workers, u \in Users :
         DeleteSession(w, u)
            => /\ (ret'[w] = ReturnedTrue) <=> ~IsNone(get_booking_state(u))
               /\ ret'[w] \in {ReturnedTrue, ReturnedFalse}
               /\ IsNone(get_booking_state(u)')
               /\ GetConversationHistory(patched', conversations', histories', u) = <<>>
               /\ \A v \in Users \ {u} :
                    /\ bookingStates'[v] = bookingStates[v]
                    /\ conversations'[v] = conversations[v]
                    /\ histories'[v] = histories[v]
                    /\ sessions'[v] = sessions[v]]_vars

\* C25: after create_new_booking_session(user, sid) the stored state has
\* that user_id and session_id and every other field empty, and the
\* conversation history of the user is the empty list.
C25_CreateResetsStateAndHistory ==
    [][\A u \in Users, sid \in SessionIds :
         CreateNewBookingSession(u, sid)
            => /\ get_booking_state(u)' = Some(BookingState(u, sid))
               /\ \A k \in DOMAIN BookingState(u, sid) \ {"user_id", "session_id"} :
                     IsNone(bookingStates'[u][1][k])
               /\ GetConversationHistory(patched', conversations', histories', u) = <<>>]_vars

\* C26: a message appended with add_conversation_message is the last of the
\* history read afterwards, after the messages that were there before.
C26_AppendedMessagesAreRead ==
    [][\A u \in Users, m \in MessageArgs :
         AddConversationMessage(u, m[1], m[2])
            => GetConversationHistory(patched', conversations', histories', u)
                 = Append(get_conversation_history(u), StoredDict(DictMessage(m[1], m[2])))]_vars

\* C27: a run of the workflow graph ends at END: no run is still going
\* from "agent" to "agent" or "action" when its steps are used up.
C27_RunReachesEnd == graph.node # "GraphRecursionError"

\* the sessions end_session has been called for, and those it has only been
\* called for with a status that is not an active one
Ended == { sid \in DOMAIN bookingSessions : endCalls[sid] # {} }
EndedForGood == { sid \in Ended : endCalls[sid] \cap ActiveStatuses = {} }

IsActive(sid) ==
    sid \in get_active_session_by_user(bookingSessions, bookingSessions[sid].user_id, now)

\* C28 as stated: a session end_session has been called for is never the
\* active session of its user again.
C28_EndedNeverActive == \A sid \in Ended : ~IsActive(sid)

\* C28: a session ended with COMPLETED, FAILED or ABANDONED, and never with
\* INITIALIZED or IN_PROGRESS, is never the active session of its user
\* again, whatever extend_session and end_session calls follow.
C28_EndedForGoodNeverActive == \A sid \in EndedForGood : ~IsActive(sid)

\* an ended session has been extended: it expires in the future and only
\* its status keeps it from being the active session of its user
C28_Witness ==
    \E sid \in EndedForGood :
        /\ bookingSessions[sid].expires_at > now
        /\ sid \in ActiveWhateverStatus(bookingSessions, bookingSessions[sid].user_id, now)

\* the user has a stored session whose bookingData is a non-empty form
HasBookingData(u) ==
    /\ ~IsNone(store[u])
    /\ ~IsNone(store[u][1].bookingData)
    /\ DOMAIN store[u][1].bookingData[1] # {}

\* C29: book-appointment answers with an appointmentId only for a user whose
\* session holds non-empty bookingData and answers 400 for every other
\* user; whatever it answers (400, 409, 200) the session store is unchanged;
\* update-booking-form for a user without a session answers 404 and stores
\* nothing.
C29_RoutesNeedSessionAndForm ==
    [][\A u \in Users :
         /\ \A conflict \in BOOLEAN, n \in RandInts :
                BookAppointment(u, conflict, n)
                    => /\ store' = store
                       /\ routeRet'.status \in {400, 409, 200}
                       /\ routeRet'.appointmentId # <<>> =>
                             routeRet'.status = 200 /\ HasBookingData(u)
                       /\ ~HasBookingData(u) => routeRet'.status = 400
                       /\ routeRet'.status = 200 => routeRet'.appointmentId # <<>>
         /\ \A data \in BookingDatas :
                UpdateForm(u, data) /\ IsNone(store[u])
                    => routeRet'.status = 404 /\ store' = store]_vars

\* a booking has been confirmed for a user whose session holds a form, while
\* another user's session holds an empty form
C29_Witness ==
    \E u, v \in Users :
        /\ routeRet.route = "book-appointment" /\ routeRet.user = u
        /\ routeRet.status = 200 /\ routeRet.appointmentId # <<>>
        /\ HasBookingData(u)
        /\ ~IsNone(store[v]) /\ ~HasBookingData(v)

\* the columns of an appointment row other than its status
ColumnsBesidesStatus ==
    {"user_id", "family_member_id", "doctor_id", "date_time", "duration_minutes", "confirmation_id"}

\* C30: update_appointment, cancel_appointment and reschedule_appointment
\* called with an id that matches no row return None and leave the table as
\* it was; cancel_appointment with a matching id changes nothing but the
\* status of that row, which is CANCELED when the call returns the row.
C30_NotFoundAndCancelFrame ==
    [][\A id \in NamedIds :
         /\ id \notin DOMAIN appointments =>
              /\ \A c \in FrameUpdateCalls :
                    UpdateAppointment(W1, id, c[1], c[2])
                        => ret'[W1] = ReturnedNone /\ appointments' = appointments
              /\ \A up \in BOOLEAN :
                    CancelAppointment(W1, id, up)
                        => ret'[W1] = ReturnedNone /\ appointments' = appointments
              /\ \A c \in FrameRescheduleCalls :
                    RescheduleAppointment(W1, id, c[1], c[2], c[3])
                        => ret'[W1] = ReturnedNone /\ appointments' = appointments
         /\ id \in DOMAIN appointments =>
              \A up \in BOOLEAN :
                 CancelAppointment(W1, id, up)
                    => /\ DOMAIN appointments' = DOMAIN appointments
                       /\ \A j \in DOMAIN appointments \ {id} : appointments'[j] = appointments[j]
                       /\ \A k \in ColumnsBesidesStatus : appointments'[id][k] = appointments[id][k]
                       /\ ret'[W1] = Returned(id) => appointments'[id].status = "CANCELED"
                       /\ appointments'[id].status \in {"CANCELED", appointments[id].status}]_vars

\* a call has named an id that is not stored and returned None, with rows
\* stored, one of them canceled beside one that is not
C30_Witness ==
    /\ ret[W1] = ReturnedNone
    /\ \E i, j \in DOMAIN appointments :
          appointments[i].status = "CANCELED" /\ appointments[j].status # "CANCELED"

====
